---- MODULE Spec2Model ----
(***************************************************************************)
(* Model of src/download_prices.py: the batch downloader of hospital       *)
(* price-transparency files.  Strings are sequences of one-character       *)
(* strings, so that sanitising, suffix tests and substring tests are       *)
(* computed the way the Python code computes them.                         *)
(***************************************************************************)
EXTENDS Integers, Sequences, FiniteSets, TLC

\* ------------------------------------------------------------------ text

\* Python's None (a short CSV row gives None for its missing trailing fields):
\* a value that is no string of characters.
None == << "None" >>

Min(a, b) == IF a < b THEN a ELSE b

UpperLetters ==
  <<"A","B","C","D","E","F","G","H","I","J","K","L","M",
    "N","O","P","Q","R","S","T","U","V","W","X","Y","Z">>

LowerLetters ==
  <<"a","b","c","d","e","f","g","h","i","j","k","l","m",
    "n","o","p","q","r","s","t","u","v","w","x","y","z">>

Digits == <<"0","1","2","3","4","5","6","7","8","9">>

Range(s) == { s[i] : i \in DOMAIN s }

IndexOf(c, s) == CHOOSE i \in DOMAIN s : s[i] = c

\* U+0130, LATIN CAPITAL LETTER I WITH DOT ABOVE: a letter (so \w matches it)
\* whose str.lower() is two characters, "i" followed by U+0307.
CapitalIDot == "U+0130"

\* U+0307, COMBINING DOT ABOVE: category Mn, which \w does not match.
CombiningDot == "U+0307"

\* str.lower() of one character, as a string (it may be longer than one).
LowerChar(c) ==
  IF c \in Range(UpperLetters) THEN << LowerLetters[IndexOf(c, UpperLetters)] >>
  ELSE IF c = CapitalIDot THEN << "i", CombiningDot >>
  ELSE << c >>

\* SubSeq(s, m, n) cut to the indices s has, as a Python slice is.
Slice(s, m, n) ==
  IF m > n \/ m > Len(s) THEN << >>
  ELSE SubSeq(s, IF m < 1 THEN 1 ELSE m, Min(n, Len(s)))

RECURSIVE Lower(_)
\* str.lower(), by halves
Lower(s) ==
  IF s = << >> THEN << >>
  ELSE IF Len(s) = 1 THEN LowerChar(s[1])
  ELSE Lower(Slice(s, 1, Len(s) \div 2)) \o Lower(Slice(s, Len(s) \div 2 + 1, Len(s)))

\* The characters of the class [<>:"/\\|?*] (line 38).
ProblemChars == { "<", ">", ":", "\"", "/", "\\", "|", "?", "*" }

\* The characters \s matches.
SpaceChars == { " ", "\t", "\n", "\r" }

\* The characters \w matches: Unicode letters and digits, and the underscore.
IsWordChar(c) ==
  \/ c \in Range(UpperLetters)
  \/ c \in Range(LowerLetters)
  \/ c \in Range(Digits)
  \/ c = "_"
  \/ c = CapitalIDot

\* re.sub(r'\s+', '_', s): every maximal run of whitespace becomes one "_"
\* (written where the run ends; the rest of the run is dropped).
CollapseSpaces(s) ==
  LET Dropped == "dropped"
      t == [ i \in DOMAIN s |->
               IF s[i] \notin SpaceChars THEN s[i]
               ELSE IF i < Len(s) /\ s[i + 1] \in SpaceChars THEN Dropped
               ELSE "_" ]
  IN  SelectSeq(t, LAMBDA c : c # Dropped)

\* The slice bound of sanitize_filename (line 41).
MaxNameLen == 100

IsProblemChar(c) == c \in ProblemChars

\* [^\w\-_.] (line 40)
IsUnsafeChar(c) == ~ (IsWordChar(c) \/ c \in { "-", "_", "." })

\* sanitize_filename (lines 35-41)
sanitize_filename(name) ==
  LET s1 == SelectSeq(name, LAMBDA c : ~ IsProblemChar(c))
      s2 == CollapseSpaces(s1)
      s3 == SelectSeq(s2, LAMBDA c : ~ IsUnsafeChar(c))
      s4 == Lower(s3)
  IN  Slice(s4, 1, Min(Len(s4), MaxNameLen))

EndsWith(s, suf) ==
  /\ Len(suf) <= Len(s)
  /\ Slice(s, Len(s) - Len(suf) + 1, Len(s)) = suf

\* Python's  sub in s
Contains(s, sub) ==
  \E i \in 0 .. (Len(s) - Len(sub)) : Slice(s, i + 1, i + Len(sub)) = sub

\* The index of the first character of s that is in the set cs, or
\* Len(s) + 1 when there is none.
FirstOf(s, cs) ==
  IF \E i \in DOMAIN s : s[i] \in cs
  THEN CHOOSE i \in DOMAIN s : s[i] \in cs /\ \A j \in 1 .. (i - 1) : s[j] \notin cs
  ELSE Len(s) + 1

\* The index of the last character of s that is in the set cs, or 0.
LastOf(s, cs) ==
  IF \E i \in DOMAIN s : s[i] \in cs
  THEN CHOOSE i \in DOMAIN s : s[i] \in cs /\ \A j \in (i + 1) .. Len(s) : s[j] \notin cs
  ELSE 0

DropFirst(s, n) == Slice(s, n + 1, Len(s))

ExtCsv == << ".", "c", "s", "v" >>
ExtJson == << ".", "j", "s", "o", "n" >>
ExtZip == << ".", "z", "i", "p" >>
ExtXlsx == << ".", "x", "l", "s", "x" >>
ExtXml == << ".", "x", "m", "l" >>

\* ------------------------------------------------------------------ URLs

\* The printable ASCII characters, code 32 first (the grave accent, which the
\* parser does not take in a string, is written U+0060).
AsciiPrintable ==
  <<
    " ", "!", "\"", "#", "$", "%", "&", "'", "(", ")", "*", "+",
    ",", "-", ".", "/", "0", "1", "2", "3", "4", "5", "6", "7",
    "8", "9", ":", ";", "<", "=", ">", "?", "@", "A", "B", "C",
    "D", "E", "F", "G", "H", "I", "J", "K", "L", "M", "N", "O",
    "P", "Q", "R", "S", "T", "U", "V", "W", "X", "Y", "Z", "[",
    "\\", "]", "^", "_", "U+0060", "a", "b", "c", "d", "e", "f", "g",
    "h", "i", "j", "k", "l", "m", "n", "o", "p", "q", "r", "s",
    "t", "u", "v", "w", "x", "y", "z", "{", "|", "}", "~" >>

AsciiBase == 32

HexDigits ==
  << "0","1","2","3","4","5","6","7","8","9","a","b","c","d","e","f" >>

IsHex(c) == c \in Range(HexDigits) \/ c \in { "A", "B", "C", "D", "E", "F" }

HexVal(c) == IndexOf(Head(LowerChar(c)), HexDigits) - 1

\* The replacement character, which stands here for every decoded byte that is
\* not printable ASCII.
ReplacementChar == "U+FFFD"

ByteChar(b) ==
  IF b >= AsciiBase /\ b < AsciiBase + Len(AsciiPrintable)
  THEN AsciiPrintable[b - AsciiBase + 1]
  ELSE ReplacementChar

RECURSIVE unquote(_)
\* urllib.parse.unquote (line 48): every %XX with two hex digits is decoded,
\* any other "%" is kept.
unquote(s) ==
  IF s = << >> THEN << >>
  ELSE IF Head(s) = "%" /\ Len(s) >= 3 /\ IsHex(s[2]) /\ IsHex(s[3])
       THEN << ByteChar(16 * HexVal(s[2]) + HexVal(s[3])) >> \o unquote(DropFirst(s, 3))
       ELSE << Head(s) >> \o unquote(Tail(s))

\* The characters of a URL scheme.
IsSchemeChar(c) ==
  \/ c \in Range(UpperLetters)
  \/ c \in Range(LowerLetters)
  \/ c \in Range(Digits)
  \/ c \in { "+", "-", "." }

IsAsciiLetter(c) == c \in Range(UpperLetters) \/ c \in Range(LowerLetters)

\* Has the URL a scheme, as urlsplit decides it ?
HasScheme(url) ==
  LET i == FirstOf(url, { ":" })
  IN  /\ i > 1
      /\ i <= Len(url)
      /\ IsAsciiLetter(url[1])
      /\ \A j \in 1 .. (i - 1) : IsSchemeChar(url[j])

UrlScheme(url) ==
  IF HasScheme(url) THEN Lower(Slice(url, 1, FirstOf(url, { ":" }) - 1)) ELSE << >>

AfterScheme(url) ==
  IF HasScheme(url) THEN DropFirst(url, FirstOf(url, { ":" })) ELSE url

HasNetloc(url) ==
  LET r == AfterScheme(url) IN Len(r) >= 2 /\ r[1] = "/" /\ r[2] = "/"

UrlNetloc(url) ==
  LET r == DropFirst(AfterScheme(url), 2)
  IN  IF HasNetloc(url) THEN Slice(r, 1, FirstOf(r, { "/", "?", "#" }) - 1) ELSE << >>

AfterNetloc(url) ==
  LET r == DropFirst(AfterScheme(url), 2)
  IN  IF HasNetloc(url) THEN DropFirst(r, FirstOf(r, { "/", "?", "#" }) - 1)
      ELSE AfterScheme(url)

\* urlsplit raises ValueError("Invalid IPv6 URL") on an unbalanced bracket.
UrlRaises(url) ==
  /\ url # None
  /\ ("[" \in Range(UrlNetloc(url))) # ("]" \in Range(UrlNetloc(url)))

\* The schemes of urllib.parse.uses_params that a manifest URL can have.
UsesParams ==
  { << >>, << "h","t","t","p" >>, << "h","t","t","p","s" >>, << "f","t","p" >> }

\* urlparse(url).path (line 47) of a URL without leading blanks or control
\* characters.  urlparse(None) is the empty bytes result, whose path is empty.
UrlPath(url) ==
  IF url = None THEN << >>
  ELSE LET r == AfterNetloc(url)
           p == Slice(r, 1, FirstOf(r, { "#", "?" }) - 1)
           slash == LastOf(p, { "/" })
           semi == slash + FirstOf(DropFirst(p, slash), { ";" })
       IN  IF UrlScheme(url) \in UsesParams /\ semi <= Len(p)
           THEN Slice(p, 1, semi - 1)
           ELSE p

\* The two halves of lines 50-70 in the other order: the declared type is
\* looked at before the path of the URL.
get_extension_from_url_TypeFirst(url, file_type) ==
  LET path == unquote(UrlPath(url))
      file_type_lower == Lower(file_type)
  IN  IF Contains(file_type_lower, << "c","s","v" >>) THEN ExtCsv
      ELSE IF Contains(file_type_lower, << "j","s","o","n" >>) THEN ExtJson
      ELSE IF Contains(file_type_lower, << "z","i","p" >>) THEN ExtZip
      ELSE IF Contains(file_type_lower, << "a","p","i" >>) THEN ExtJson
      ELSE IF EndsWith(path, ExtCsv) THEN ExtCsv
      ELSE IF EndsWith(path, ExtJson) THEN ExtJson
      ELSE IF EndsWith(path, ExtZip) THEN ExtZip
      ELSE IF EndsWith(path, ExtXlsx) THEN ExtXlsx
      ELSE IF EndsWith(path, ExtXml) THEN ExtXml
      ELSE ExtJson

\* get_extension_from_url (lines 44-73).  file_type.lower() raises
\* AttributeError when file_type is None: see ExtensionRaises.
get_extension_from_url(url, file_type) ==
  LET path == unquote(UrlPath(url))
      file_type_lower == Lower(file_type)
  IN  IF EndsWith(path, ExtCsv) THEN ExtCsv
      ELSE IF EndsWith(path, ExtJson) THEN ExtJson
      ELSE IF EndsWith(path, ExtZip) THEN ExtZip
      ELSE IF EndsWith(path, ExtXlsx) THEN ExtXlsx
      ELSE IF EndsWith(path, ExtXml) THEN ExtXml
      ELSE IF Contains(file_type_lower, << "c","s","v" >>) THEN ExtCsv
      ELSE IF Contains(file_type_lower, << "j","s","o","n" >>) THEN ExtJson
      ELSE IF Contains(file_type_lower, << "z","i","p" >>) THEN ExtZip
      ELSE IF Contains(file_type_lower, << "a","p","i" >>) THEN ExtJson
      ELSE ExtJson

\* Does the path of the URL end in one of the recognized suffixes (lines 50-59) ?
PathHasKnownSuffix(url) ==
  \E e \in { ExtCsv, ExtJson, ExtZip, ExtXlsx, ExtXml } : EndsWith(unquote(UrlPath(url)), e)

\* get_extension_from_url raises (line 47 or line 62) instead of returning.
ExtensionRaises(url, file_type) ==
  \/ UrlRaises(url)
  \/ file_type = None /\ ~ PathHasKnownSuffix(url)

\* ------------------------------------------------------------------ response headers

FilenameWord == << "f","i","l","e","n","a","m","e" >>

Quotes == { "'", "\"" }

\* Where the pattern  filename[^;=\n]*=  matches when it is tried at position p
\* of s: the index of its "=", or 0 when it does not match there.
ParamEquals(s, p) ==
  IF Slice(s, p, p + Len(FilenameWord) - 1) # FilenameWord THEN 0
  ELSE LET rest == DropFirst(s, p + Len(FilenameWord) - 1)
           k == FirstOf(rest, { ";", "=", "\n" })
       IN  IF k <= Len(rest) /\ rest[k] = "=" THEN p + Len(FilenameWord) - 1 + k ELSE 0

\* Group 2 of  ([\'"]?)([^\'"\n]*)\1  matched on t: with an opening quote the
\* run must be closed by the same quote; otherwise the quote is taken as
\* absent and the run is the longest prefix free of quotes and newlines.
QuotedValue(t) ==
  LET run(u) == Slice(u, 1, FirstOf(u, Quotes \cup { "\n" }) - 1)
      inner == Tail(t)
      m == Len(run(inner))
  IN  IF t # << >> /\ Head(t) \in Quotes /\ m < Len(inner) /\ inner[m + 1] = Head(t)
      THEN run(inner)
      ELSE run(t)

\* match.group(2) of re.search(r'filename[^;=\n]*=([\'"]?)([^\'"\n]*)\1', s)
\* (line 94), or None when there is no match.
ContentDispFilename(s) ==
  LET starts == { p \in DOMAIN s : ParamEquals(s, p) # 0 }
  IN  IF starts = { } THEN None
      ELSE LET p == CHOOSE x \in starts : \A y \in starts : x <= y
           IN  QuotedValue(DropFirst(s, ParamEquals(s, p)))

\* response.headers.get(name, ''), an absent header being None in the model
HeaderOr(h, default) == IF h = None THEN default ELSE h

\* get_extension_from_response (lines 76-100); headers is the record of the
\* response's Content-Type and Content-Disposition headers.
get_extension_from_response(headers, default_ext) ==
  LET content_type == Lower(HeaderOr(headers.ctype, << >>))
      content_disp == HeaderOr(headers.cdisp, << >>)
      filename == ContentDispFilename(content_disp)
  IN  IF Contains(content_type, << "c","s","v" >>) THEN ExtCsv
      ELSE IF Contains(content_type, << "j","s","o","n" >>) THEN ExtJson
      ELSE IF Contains(content_type, << "z","i","p" >>) THEN ExtZip
      ELSE IF \/ Contains(content_type, << "e","x","c","e","l" >>)
              \/ Contains(content_type, << "s","p","r","e","a","d","s","h","e","e","t" >>)
           THEN ExtXlsx
      ELSE IF Contains(content_type, << "x","m","l" >>) THEN ExtXml
      ELSE IF /\ Contains(content_disp, FilenameWord \o << "=" >>)
              /\ filename # None
              /\ "." \in Range(filename)
           THEN << "." >> \o Lower(DropFirst(filename, LastOf(filename, { "." })))
      ELSE default_ext

\* ------------------------------------------------------------------ configuration

\* RETRY_ATTEMPTS (line 22)
RETRY_ATTEMPTS == 3

\* TIMEOUT (line 20)
TIMEOUT == 120

\* The name of the log file in the output directory (line 262).
LogName ==
  << "d","o","w","n","l","o","a","d","_","l","o","g",".","c","s","v" >>

\* The columns that main reads of every row (lines 223-229).
Fields == { "hospital_name", "mrf_download_url", "file_type", "region" }

\* ------------------------------------------------------------------ paths

\* output_dir / name: pathlib drops an empty and a "." component, so such a
\* region directory is the output directory itself, written << >>.
RegionDir(region) ==
  LET d == sanitize_filename(region)
  IN  IF d = << "." >> THEN << >> ELSE d

RECURSIVE DecStr(_)
\* str(n) for n >= 0
DecStr(n) ==
  IF n < 10 THEN << Digits[n + 1] >>
  ELSE DecStr(n \div 10) \o << Digits[(n % 10) + 1] >>

\* filepath.exists() (line 141) in the file system files/dirs: a file of the
\* directory, or, in the output directory, a region directory of that name.
PathExists(files, subdirs, dir, name) ==
  \/ << dir, name >> \in DOMAIN files
  \/ dir = << >> /\ name \in subdirs

\* The names for which filepath.exists() holds in the directory dir.
NamesIn(fs, subdirs, dir) ==
  { p[2] : p \in { q \in DOMAIN fs : q[1] = dir } } \cup (IF dir = << >> THEN subdirs ELSE { })

\* Lines 141-144 with "if" for "while": the first numbered name is taken unchecked.
NextFree_Once(files, subdirs, dir, base_name, actual_ext, n) ==
  base_name \o << "_" >> \o DecStr(n) \o actual_ext

RECURSIVE NextFree(_, _, _, _, _, _)
\* The loop of lines 141-144, entered with the candidate name and counter.
NextFree(files, subdirs, dir, base_name, actual_ext, n) ==
  LET filename == base_name \o << "_" >> \o DecStr(n) \o actual_ext
  IN  IF PathExists(files, subdirs, dir, filename)
      THEN NextFree(files, subdirs, dir, base_name, actual_ext, n + 1)
      ELSE filename

\* Lines 136-137 without the loop of lines 141-144.
FreeName_NoCheck(files, subdirs, dir, base_name, actual_ext) == base_name \o actual_ext

\* The file name that lines 136-144 settle on.
FreeName(files, subdirs, dir, base_name, actual_ext) ==
  IF PathExists(files, subdirs, dir, base_name \o actual_ext)
  THEN NextFree(files, subdirs, dir, base_name, actual_ext, 1)
  ELSE base_name \o actual_ext

\* Line 164 with a linear backoff, 2 * attempt, for the exponential one.
Pow2_Linear(n) == 2 * n

RECURSIVE Pow2(_)
\* 2 ** n
Pow2(n) == IF n = 0 THEN 1 ELSE 2 * Pow2(n - 1)

RECURSIVE Sum(_)
Sum(s) == IF s = << >> THEN 0 ELSE Head(s) + Sum(Tail(s))

\* ------------------------------------------------------------------ inputs

HttpHost == << "h","t","t","p",":","/","/","h" >>

UrlCsv == HttpHost \o << "/","d",".","c","s","v" >>

UrlApi == HttpHost \o << "/","a","p","i" >>

TypeCsv == << "C","S","V" >>

TypeApi == << "A","P","I" >>

Row(name, url, type, region) ==
  [ hospital_name |-> name, mrf_download_url |-> url, file_type |-> type, region |-> region ]

\* Well-formed rows.  The first two sanitize to the same name in the same
\* region directory; the third sanitizes to the first disambiguated name of
\* the others; the fourth has a region that sanitizes to the empty string and a
\* name that is the log file's.
GoodRows ==
  { Row(<< "A"," ","b" >>, UrlCsv, TypeCsv, << "R" >>),
    Row(<< "a","_","b" >>, UrlApi, TypeApi, << "r","*" >>),
    Row(<< "a","_","b","_","1" >>, UrlApi, TypeCsv, << "R" >>),
    Row(Slice(LogName, 1, 12), UrlCsv, TypeCsv, << "/" >>) }

\* Short rows: csv.DictReader gives None for the fields a row does not have.
\* The last row's region names the log file.
OddRows ==
  { Row(<< "A"," ","b" >>, UrlCsv, TypeCsv, None),
    Row(None, UrlCsv, TypeCsv, << "R" >>),
    Row(<< "A"," ","b" >>, None, TypeCsv, << "R" >>),
    Row(<< "A"," ","b" >>, UrlApi, None, << "R" >>),
    Row(<< "A"," ","b" >>, UrlCsv, None, << "R" >>),
    Row(<< "A"," ","b" >>, UrlCsv, TypeCsv, LogName) }

\* The most rows of a manifest.
MaxRows == 2

\* The most events of one behaviour: the calls of download_file and the delays
\* between rows of the runs started, and the attempts that the environment
\* (network, server, disk) makes fail.
MaxEvents == 4

\* Lines 222-243: a run over n rows makes n calls and n - 1 delays.
RunEvents(n) == IF n = 0 THEN 0 ELSE 2 * n - 1

SeqsUpTo(S, n) == UNION { [ 1 .. k -> S ] : k \in 0 .. n }

\* The headers of a successful response.
NoHeaders == [ ctype |-> None, cdisp |-> None ]

CsvHeaders == [ ctype |-> << "t","e","x","t","/","c","s","v" >>, cdisp |-> None ]

ResponseHeaders == { NoHeaders, CsvHeaders }

\* The bodies of a successful response, as the chunks iter_content yields.
Bodies == { << 0, 2 >> }

\* The status codes for which raise_for_status raises.
ErrorStatuses == { 404, 500 }

\* ------------------------------------------------------------------ state

VARIABLES
  csv_exists,    \* does the manifest file exist (line 195) ?
  header,        \* the columns of the manifest's header line
  hospitals,     \* the rows of the manifest, in input order
  pc,            \* where main is: start, row, try, stream, return, summary,
                 \* log, listing, done, raised
  i,             \* the 1-based index of the row at hand (line 222)
  results,       \* the results appended so far in this run (line 213)
  successful,    \* line 214
  failed,        \* line 215
  total_bytes,   \* line 216
  files,         \* the files under the output directory: <<dir, name>> -> content
  dirs,          \* the region directories under the output directory
  out_dir,       \* does the output directory exist ?
  log,           \* download_log.csv as this run wrote it: is it written, its data rows
  summary,       \* the summary printed in this run
  exit_code,     \* what main returned, -1 before it returns
  raised,        \* the exception that left main, None when there is none
  attempt,       \* download_file: the loop variable of line 122
  result,        \* download_file: the result dict, NoResult outside a call
  region_dir,    \* download_file: line 115
  base_name,     \* download_file: line 119
  expected_ext,  \* download_file: line 120
  filepath,      \* download_file: the file opened by line 148
  response,      \* download_file: the response of line 125, NoResponse before the first
  calls,         \* history: the calls of download_file so far, over all runs
  requests,      \* history: the requests made by the call at hand
  waits,         \* history: the backoff waits of the call at hand, <<attempt, seconds>>
  outcomes,      \* history: how each attempt of the call at hand ended
  opened,        \* history: the files the call at hand opened for writing
  files_before,  \* history: the files when the call at hand began
  delays,        \* history: the inter-row delays of this run (line 243)
  faults,        \* history: the attempts that the environment made fail so far
  runs,          \* history: the runs of the script started so far
  unclosed,      \* history: the responses that no name refers to any more and that
                 \* were neither released nor reclaimed by the runtime
  called,        \* a function applied on its own: its name and arguments
  returned       \* the value that the function applied on its own returned

inputs == << csv_exists, header, hospitals >>

mainvars == << i, results, successful, failed, total_bytes, log, summary, exit_code, raised >>

fsvars == << files, dirs, out_dir >>

locals == << attempt, result, region_dir, base_name, expected_ext, filepath, response >>

history == << calls, requests, waits, outcomes, opened, files_before, delays, faults, runs,
             unclosed >>

\* The application of one function of the module on its own, outside a run.
pure == << called, returned >>

vars == << inputs, pc, mainvars, fsvars, locals, history, pure >>

NoFiles == [ p \in { } |-> None ]

\* The result dict as download_file creates it (lines 105-112).
NewResult(hospital_name, url) ==
  [ hospital |-> hospital_name, url |-> url, success |-> FALSE,
    filename |-> None, error |-> None, size |-> 0 ]

\* The value of result when no call is under way.
NoResult == NewResult(None, None)

\* The value of log before the log file is written.
NoLog == [ written |-> FALSE, rows |-> << >> ]

\* The value of summary before the summary is printed.
NoSummary == [ printed |-> FALSE ]

\* files with the file at path created or truncated and given the content c.
WriteFile(fs, path, c) ==
  [ p \in DOMAIN fs \cup { path } |-> IF p = path THEN c ELSE fs[p] ]

\* The value of response before line 125 has bound it.  A status of 0 is no
\* response.
NoResponse == [ status |-> 0, released |-> FALSE ]

\* The response of line 125 with the status code of the server's answer.  With
\* stream=True its connection is held until the body is read to its end, the
\* transfer fails or close() is called.
NewResponse(status) == [ status |-> status, released |-> FALSE ]

\* Does the response hold a connection that nothing has released ?
Unreleased(r) == r.status # 0 /\ ~ r.released

\* The values unclosed can take when the name response goes away with the
\* frame of download_file: nothing in the code closes an unreleased response,
\* and the runtime reclaims it then (a reference count falling to zero) or
\* later (a collector run).
Dropped(r, n) == IF Unreleased(r) THEN { n, n + 1 } ELSE { n }

\* No function is applied on its own.
NoCall == [ fn |-> "none", args |-> << >> ]

\* The state of the program before main does anything.
Fresh ==
  /\ pc = "start"
  /\ i = 0
  /\ results = << >>
  /\ successful = 0
  /\ failed = 0
  /\ total_bytes = 0
  /\ files = NoFiles
  /\ dirs = { }
  /\ out_dir = FALSE
  /\ log = NoLog
  /\ summary = NoSummary
  /\ exit_code = -1
  /\ raised = None
  /\ attempt = 0
  /\ result = NoResult
  /\ region_dir = None
  /\ base_name = None
  /\ expected_ext = None
  /\ filepath = None
  /\ calls = 0
  /\ requests = 0
  /\ waits = << >>
  /\ outcomes = << >>
  /\ opened = << >>
  /\ files_before = NoFiles
  /\ delays = 0
  /\ faults = 0
  /\ runs = 1
  /\ response = NoResponse
  /\ unclosed = 0

Init ==
  /\ csv_exists \in BOOLEAN
  /\ header \in { Fields } \cup { Fields \ { f } : f \in Fields }
  /\ hospitals \in SeqsUpTo(GoodRows \cup OddRows, MaxRows)
  /\ Fresh
  /\ called = NoCall
  /\ returned = None

\* ------------------------------------------------------------------ main, before the loop

\* The test of line 195 made after line 200: the output directory is there
\* when main returns for want of a manifest.
MainNoManifest_MkdirFirst ==
  /\ pc = "start"
  /\ ~ csv_exists
  /\ out_dir' = TRUE
  /\ exit_code' = 1
  /\ pc' = "done"
  /\ UNCHANGED << inputs, pure, i, results, successful, failed, total_bytes, log, summary,
                  raised, files, dirs, locals, history >>

\* Lines 189-197: the manifest file does not exist.
MainNoManifest ==
  /\ pc = "start"
  /\ ~ csv_exists
  /\ exit_code' = 1
  /\ pc' = "done"
  /\ UNCHANGED << inputs, pure, i, results, successful, failed, total_bytes, log, summary,
                  raised, fsvars, locals, history >>

\* Lines 199-219: the output directory is made, the manifest is read and the
\* counters are set.
MainStart ==
  /\ pc = "start"
  /\ csv_exists
  /\ out_dir' = TRUE
  /\ results' = << >>
  /\ successful' = 0
  /\ failed' = 0
  /\ total_bytes' = 0
  /\ i' = 1
  /\ pc' = IF hospitals = << >> THEN "summary" ELSE "row"
  /\ UNCHANGED << inputs, pure, log, summary, exit_code, raised, files, dirs, locals, history >>

\* ------------------------------------------------------------------ download_file, before the loop

\* The column whose lookup raises KeyError in lines 223-229, when the header
\* lacks a column.
MissingColumn ==
  IF "hospital_name" \notin header THEN "hospital_name"
  ELSE IF "mrf_download_url" \notin header THEN "mrf_download_url"
  ELSE IF "file_type" \notin header THEN "file_type"
  ELSE "region"

\* region_dir.mkdir(parents=True, exist_ok=True) raises FileExistsError when the
\* path is a file (line 116).
MkdirRaises(fs, d) == d # << >> /\ << << >>, d >> \in DOMAIN fs

\* sanitize_filename taking None for the empty string: a row without a name is
\* fetched.
SetupError_NoNameCheck(row, fs) ==
  IF header # Fields THEN << "KeyError", MissingColumn, FALSE >>
  ELSE IF row.region = None THEN << "TypeError", "region", FALSE >>
  ELSE IF MkdirRaises(fs, RegionDir(row.region))
       THEN << "FileExistsError", "region", FALSE >>
  ELSE IF UrlRaises(row.mrf_download_url) THEN << "ValueError", "mrf_download_url", TRUE >>
  ELSE IF ExtensionRaises(row.mrf_download_url, row.file_type)
       THEN << "AttributeError", "file_type", TRUE >>
  ELSE None

\* The exception that lines 223-229 and 103-120 raise for the row, and whether
\* the region directory was made before it; None when the row reaches the loop.
SetupError(row, fs) ==
  IF header # Fields THEN << "KeyError", MissingColumn, FALSE >>
  ELSE IF row.region = None THEN << "TypeError", "region", FALSE >>
  ELSE IF MkdirRaises(fs, RegionDir(row.region))
       THEN << "FileExistsError", "region", FALSE >>
  ELSE IF row.hospital_name = None THEN << "TypeError", "hospital_name", TRUE >>
  ELSE IF UrlRaises(row.mrf_download_url) THEN << "ValueError", "mrf_download_url", TRUE >>
  ELSE IF ExtensionRaises(row.mrf_download_url, row.file_type)
       THEN << "AttributeError", "file_type", TRUE >>
  ELSE None

\* The region directories after mkdir of the directory d.
MadeDir(ds, d) == IF d = << >> THEN ds ELSE ds \cup { d }

\* Lines 222-231 and 103-120: main calls download_file for row i, which sets up
\* its result, the region directory, the base name and the expected extension.
CallDownload ==
  /\ pc = "row"
  /\ LET row == hospitals[i]
     IN  /\ SetupError(row, files) = None
         /\ result' = NewResult(row.hospital_name, row.mrf_download_url)
         /\ region_dir' = RegionDir(row.region)
         /\ dirs' = MadeDir(dirs, RegionDir(row.region))
         /\ base_name' = sanitize_filename(row.hospital_name)
         /\ expected_ext' =
              get_extension_from_url(row.mrf_download_url,
                                     IF row.file_type = None THEN << >> ELSE row.file_type)
  /\ attempt' = 0
  /\ filepath' = None
  /\ response' = NoResponse
  /\ calls' = calls + 1
  /\ requests' = 0
  /\ waits' = << >>
  /\ outcomes' = << >>
  /\ opened' = << >>
  /\ files_before' = files
  /\ pc' = "try"
  /\ UNCHANGED << faults, runs, unclosed, inputs, pure, mainvars, files, out_dir, delays >>

\* Lines 222-231 and 103-120 when a lookup, sanitize_filename, mkdir or
\* get_extension_from_url raises: nothing catches it and it leaves main.
CallRaises ==
  /\ pc = "row"
  /\ LET e == SetupError(hospitals[i], files)
     IN  /\ e # None
         /\ raised' = << e[1], e[2] >>
         /\ dirs' = IF e[3] THEN MadeDir(dirs, RegionDir(hospitals[i].region)) ELSE dirs
  /\ pc' = "raised"
  /\ UNCHANGED << inputs, pure, i, results, successful, failed, total_bytes, log, summary,
                  exit_code, files, out_dir, locals, history >>

\* ------------------------------------------------------------------ download_file, the retry loop

HttpSchemes == { << "h","t","t","p" >>, << "h","t","t","p","s" >> }

\* Can requests.get send a request for the URL ?  Otherwise it raises a
\* RequestException (MissingSchema, InvalidSchema, InvalidURL) at once, as it
\* does for None.
ValidHttpUrl(url) ==
  /\ url # None
  /\ UrlScheme(url) \in HttpSchemes
  /\ UrlNetloc(url) # << >>

\* May the environment make one more attempt fail ?  The runs started always
\* have the events left to make all their calls.
FaultAllowed == faults + runs * RunEvents(Len(hospitals)) < MaxEvents

\* The test of lines 163 and 172 left out: a wait follows every failed attempt.
ShouldWait_Always(a) == TRUE

\* The test of lines 163 and 172: is there a backoff wait after attempt a ?
ShouldWait(a) == a < RETRY_ATTEMPTS - 1

\* The loop of line 122 without its bound: a failed attempt is always followed
\* by another.
LoopContinues_Always(a) == TRUE

\* The loop of line 122: is there another attempt after attempt a ?
LoopContinues(a) == a + 1 < RETRY_ATTEMPTS

\* The error message of line 162.
TimeoutError(a) == << "Timeout", TIMEOUT, a + 1, RETRY_ATTEMPTS >>

\* The error message of line 167.
HttpError(status) == << "HTTP", status >>

\* The error message of line 171.
RequestError(what) == << "RequestException", what >>

\* The error message of line 176.
UnexpectedError(what) == << "Unexpected error", what >>

\* How an attempt ended, for the history: the kind of ending and the status
\* code of the response (0 when there was no response).
Outcome(kind, status) == [ kind |-> kind, status |-> status ]

\* Line 233 with the result put in front.
AppendResult_Front(rs, r) == << r >> \o rs

\* The line 233 of main.
AppendResult(rs, r) == Append(rs, r)

\* The handlers of lines 161-164 and 170-173: the error is recorded, the
\* backoff wait is made when another attempt follows, and the loop goes on or
\* ends, in which case line 180 returns the result.
Retry(err, outcome) ==
  /\ result' = [ result EXCEPT !.error = err ]
  /\ outcomes' = Append(outcomes, outcome)
  /\ waits' = IF ShouldWait(attempt) THEN Append(waits, << attempt, Pow2(attempt) >>) ELSE waits
  /\ attempt' = IF LoopContinues(attempt) THEN attempt + 1 ELSE attempt
  /\ pc' = IF LoopContinues(attempt) THEN "try" ELSE "return"

\* Lines 167 and 176 left out: the handler leaves the loop without an error
\* message.
GiveUp_Silent(err, outcome) ==
  /\ outcomes' = Append(outcomes, outcome)
  /\ pc' = "return"
  /\ UNCHANGED << result, waits, attempt >>

\* The handlers of lines 166-168 and 175-177: the error is recorded and the
\* loop is left; line 180 returns the result.
GiveUp(err, outcome) ==
  /\ result' = [ result EXCEPT !.error = err ]
  /\ outcomes' = Append(outcomes, outcome)
  /\ pc' = "return"
  /\ UNCHANGED << waits, attempt >>

\* Lines 125-131 and 161-164: the request times out.
AttemptTimeout ==
  /\ pc = "try"
  /\ FaultAllowed
  /\ faults' = faults + 1
  /\ ValidHttpUrl(result.url)
  /\ requests' = requests + 1
  /\ Retry(TimeoutError(attempt), Outcome("timeout", 0))
  /\ UNCHANGED << runs, unclosed, inputs, pure, mainvars, fsvars, region_dir, base_name, expected_ext, filepath, response,
                  calls, opened, files_before, delays >>

\* Lines 125-131 and 170-173: the request fails with another RequestException
\* (no connection; or a URL that requests cannot send, for which it always
\* fails).
AttemptRequestException ==
  /\ pc = "try"
  /\ ValidHttpUrl(result.url) => FaultAllowed
  /\ faults' = IF ValidHttpUrl(result.url) THEN faults + 1 ELSE faults
  /\ requests' = requests + 1
  /\ Retry(RequestError(IF ValidHttpUrl(result.url) THEN "connection" ELSE "invalid URL"),
           Outcome("request_exception", 0))
  /\ UNCHANGED << runs, unclosed, inputs, pure, mainvars, fsvars, region_dir, base_name, expected_ext, filepath, response,
                  calls, opened, files_before, delays >>

\* Line 168 without its break: an error status is retried as a timeout is.
AttemptHTTPError_Retried ==
  /\ pc = "try"
  /\ FaultAllowed
  /\ faults' = faults + 1
  /\ ValidHttpUrl(result.url)
  /\ requests' = requests + 1
  /\ \E status \in ErrorStatuses :
       /\ response' = NewResponse(status)
       /\ Retry(HttpError(status), Outcome("http_error", status))
  /\ UNCHANGED << runs, unclosed, inputs, pure, mainvars, fsvars, region_dir, base_name, expected_ext, filepath,
                  calls, opened, files_before, delays >>

\* Lines 125-132 and 166-168: the response has an error status and
\* raise_for_status raises HTTPError.
AttemptHTTPError ==
  /\ pc = "try"
  /\ FaultAllowed
  /\ faults' = faults + 1
  /\ ValidHttpUrl(result.url)
  /\ requests' = requests + 1
  /\ \E status \in ErrorStatuses :
       /\ response' = NewResponse(status)
       /\ GiveUp(HttpError(status), Outcome("http_error", status))
  /\ UNCHANGED << runs, unclosed, inputs, pure, mainvars, fsvars, region_dir, base_name, expected_ext, filepath,
                  calls, opened, files_before, delays >>

\* open(filepath, 'wb') cannot succeed for a name with a directory separator
\* in it, the directory not being there.
OpenRaises(ext) == "/" \in Range(ext)

\* Lines 125-148: the response is good; the extension and the file name are
\* settled and the file is opened for writing, which creates it empty.
AttemptResponse ==
  /\ pc = "try"
  /\ ValidHttpUrl(result.url)
  /\ requests' = requests + 1
  /\ \E headers \in ResponseHeaders :
       LET actual_ext == get_extension_from_response(headers, expected_ext)
           filename == FreeName(files, dirs, region_dir, base_name, actual_ext)
       IN  /\ ~ OpenRaises(actual_ext)
           /\ filepath' = << region_dir, filename >>
           /\ opened' = Append(opened,
                               [ path |-> << region_dir, filename >>,
                                 ext |-> actual_ext,
                                 seen |-> NamesIn(files, dirs, region_dir),
                                 existed |-> PathExists(files, dirs, region_dir, filename) ])
           /\ files' = WriteFile(files, << region_dir, filename >>,
                                 [ by |-> << calls, attempt >>, size |-> 0 ])
  /\ response' = NewResponse(200)
  /\ pc' = "stream"
  /\ UNCHANGED << faults, runs, unclosed, inputs, pure, mainvars, dirs, out_dir, attempt, result, region_dir, base_name,
                  expected_ext, calls, waits, outcomes, files_before, delays >>

\* Lines 175-177 left out: the OSError of open is not caught and leaves main.
AttemptOpenFails_Propagates ==
  /\ pc = "try"
  /\ FaultAllowed
  /\ faults' = faults + 1
  /\ ValidHttpUrl(result.url)
  /\ requests' = requests + 1
  /\ raised' = << "OSError", "open" >>
  /\ pc' = "raised"
  /\ UNCHANGED << runs, unclosed, inputs, pure, i, results, successful, failed, total_bytes, log, summary,
                  exit_code, fsvars, locals, calls, waits, outcomes, opened, files_before,
                  delays >>

\* Lines 125-148 and 175-177: the response is good but open raises OSError.
AttemptOpenFails ==
  /\ pc = "try"
  /\ FaultAllowed
  /\ faults' = faults + 1
  /\ ValidHttpUrl(result.url)
  /\ requests' = requests + 1
  /\ response' = NewResponse(200)
  /\ GiveUp(UnexpectedError("open"), Outcome("unexpected", 200))
  /\ UNCHANGED << runs, unclosed, inputs, pure, mainvars, fsvars, region_dir, base_name, expected_ext, filepath,
                  calls, opened, files_before, delays >>

\* Is the file of line 148 open ?  The with statement closes it on every way
\* out of lines 149-152.
HandleOpen == pc = "stream"

\* The bytes that lines 149-152 write for the chunks: an empty chunk is skipped.
Written(chunks) == Sum(SelectSeq(chunks, LAMBDA c : c # 0))

\* Lines 149-159: every chunk is written, the file is closed and the result is
\* filled in and returned.
StreamComplete ==
  /\ pc = "stream"
  /\ \E body \in Bodies :
       /\ files' = [ files EXCEPT ![filepath].size = Written(body) ]
       /\ result' = [ result EXCEPT !.success = TRUE,
                                    !.filename = filepath,
                                    !.size = Written(body) ]
  /\ response' = [ response EXCEPT !.released = TRUE ]
  /\ outcomes' = Append(outcomes, Outcome("ok", 200))
  /\ pc' = "return"
  /\ UNCHANGED << faults, runs, unclosed, inputs, pure, mainvars, dirs, out_dir, attempt, region_dir, base_name,
                  expected_ext, filepath, calls, requests, waits, opened, files_before,
                  delays >>

\* Lines 149-152 and 170-173: the connection breaks after k chunks; the file
\* is closed with what was written and the attempt counts as failed.
StreamBroken ==
  /\ pc = "stream"
  /\ FaultAllowed
  /\ faults' = faults + 1
  /\ \E body \in Bodies : \E k \in 0 .. Len(body) :
       /\ files' = [ files EXCEPT ![filepath].size = Written(Slice(body, 1, k)) ]
  /\ response' = [ response EXCEPT !.released = TRUE ]
  /\ Retry(RequestError("stream"), Outcome("request_exception", 200))
  /\ UNCHANGED << runs, unclosed, inputs, pure, mainvars, dirs, out_dir, region_dir, base_name, expected_ext,
                  filepath, calls, requests, opened, files_before, delays >>

\* Line 177 without its break: a failed write is retried as a broken stream is.
StreamWriteFails_Retried ==
  /\ pc = "stream"
  /\ FaultAllowed
  /\ faults' = faults + 1
  /\ \E body \in Bodies : \E k \in 0 .. (Len(body) - 1) :
       /\ files' = [ files EXCEPT ![filepath].size = Written(Slice(body, 1, k)) ]
  /\ Retry(UnexpectedError("write"), Outcome("unexpected", 200))
  /\ UNCHANGED << runs, unclosed, inputs, pure, mainvars, dirs, out_dir, region_dir, base_name, expected_ext,
                  filepath, response, calls, requests, opened, files_before, delays >>

\* Lines 149-152 and 175-177: f.write raises OSError after k chunks.
StreamWriteFails ==
  /\ pc = "stream"
  /\ FaultAllowed
  /\ faults' = faults + 1
  /\ \E body \in Bodies : \E k \in 0 .. (Len(body) - 1) :
       /\ files' = [ files EXCEPT ![filepath].size = Written(Slice(body, 1, k)) ]
  /\ GiveUp(UnexpectedError("write"), Outcome("unexpected", 200))
  /\ UNCHANGED << runs, unclosed, inputs, pure, mainvars, dirs, out_dir, region_dir, base_name, expected_ext,
                  filepath, response, calls, requests, opened, files_before, delays >>

\* ------------------------------------------------------------------ main, the loop and after

\* The test of line 242 left out: a delay follows every row.
DelayFollows_Always(k, n) == TRUE

\* The test of line 242: is the inter-row delay made after row k of n ?
DelayFollows(k, n) == k < n

\* Lines 233-243: the result is appended and counted, and unless the row is
\* the last the inter-row delay is made and the loop goes to the next row.
Collect ==
  /\ pc = "return"
  /\ results' = AppendResult(results, result)
  /\ successful' = IF result.success THEN successful + 1 ELSE successful
  /\ total_bytes' = IF result.success THEN total_bytes + result.size ELSE total_bytes
  /\ failed' = IF result.success THEN failed ELSE failed + 1
  /\ delays' = IF DelayFollows(i, Len(hospitals)) THEN delays + 1 ELSE delays
  /\ i' = IF i < Len(hospitals) THEN i + 1 ELSE i
  /\ pc' = IF i < Len(hospitals) THEN "row" ELSE "summary"
  /\ attempt' = 0
  /\ result' = NoResult
  /\ region_dir' = None
  /\ base_name' = None
  /\ expected_ext' = None
  /\ filepath' = None
  /\ response' = NoResponse
  /\ unclosed' \in Dropped(response, unclosed)
  /\ requests' = 0
  /\ waits' = << >>
  /\ outcomes' = << >>
  /\ opened' = << >>
  /\ files_before' = NoFiles
  /\ UNCHANGED << faults, runs, inputs, pure, log, summary, exit_code, raised, fsvars, calls >>

\* The failure listing of lines 255-259.
FailureList(rs) ==
  LET bad == SelectSeq(rs, LAMBDA r : ~ r.success)
  IN  [ k \in DOMAIN bad |-> << bad[k].hospital, bad[k].error >> ]

\* Lines 245-259: the summary is printed.
Summary ==
  /\ pc = "summary"
  /\ summary' = [ printed |-> TRUE,
                  total |-> Len(hospitals), successful |-> successful, failed |-> failed,
                  total_bytes |-> total_bytes,
                  failures |-> IF failed > 0 THEN FailureList(results) ELSE << >> ]
  /\ pc' = "log"
  /\ UNCHANGED << inputs, pure, i, results, successful, failed, total_bytes, log, exit_code, raised,
                  fsvars, locals, history >>

\* csv.DictWriter writes None as the empty string.
CsvField(v) == IF v = None THEN << >> ELSE v

\* The row that DictWriter writes for a result, in the order of fieldnames
\* (line 264).
LogRow(r) ==
  << CsvField(r.hospital), CsvField(r.url), r.success, CsvField(r.filename), r.size,
     CsvField(r.error) >>

LogPath == << << >>, LogName >>

\* Lines 261-267: the log file is written, one row for each result in the
\* order of results.
WriteLog ==
  /\ pc = "log"
  /\ LogName \notin dirs
  /\ log' = [ written |-> TRUE, rows |-> [ k \in DOMAIN results |-> LogRow(results[k]) ] ]
  /\ files' = WriteFile(files, LogPath, [ by |-> << calls, -1 >>, size |-> Len(results) ])
  /\ pc' = "listing"
  /\ UNCHANGED << inputs, pure, i, results, successful, failed, total_bytes, summary, exit_code,
                  raised, dirs, out_dir, locals, history >>

\* Line 263 when the log file's path is a region directory: open raises
\* IsADirectoryError, which leaves main.
WriteLogRaises ==
  /\ pc = "log"
  /\ LogName \in dirs
  /\ raised' = << "IsADirectoryError", "download_log.csv" >>
  /\ pc' = "raised"
  /\ UNCHANGED << inputs, pure, i, results, successful, failed, total_bytes, log, summary,
                  exit_code, fsvars, locals, history >>

\* Line 280 with its test turned round.
ExitStatus_Inverted(nfailed) == IF nfailed = 0 THEN 1 ELSE 0

\* Line 280
ExitStatus(nfailed) == IF nfailed = 0 THEN 0 ELSE 1

\* Lines 269-280: the files are listed by region and main returns.
Finish ==
  /\ pc = "listing"
  /\ exit_code' = ExitStatus(failed)
  /\ pc' = "done"
  /\ UNCHANGED << inputs, pure, i, results, successful, failed, total_bytes, log, summary, raised,
                  fsvars, locals, history >>

\* The script is run again with the same manifest; the output directory and
\* what is in it stay.
Rerun ==
  /\ pc = "done"
  /\ runs < MaxEvents
  /\ faults + (runs + 1) * RunEvents(Len(hospitals)) <= MaxEvents
  /\ runs' = runs + 1
  /\ pc' = "start"
  /\ log' = NoLog
  /\ summary' = NoSummary
  /\ exit_code' = -1
  /\ delays' = 0
  /\ unclosed' = 0
  /\ UNCHANGED << inputs, pure, i, results, successful, failed, total_bytes, raised, fsvars, locals,
                  calls, requests, waits, outcomes, opened, files_before, faults >>

Next ==
  \/ MainNoManifest
  \/ MainStart
  \/ CallDownload
  \/ CallRaises
  \/ AttemptTimeout
  \/ AttemptRequestException
  \/ AttemptHTTPError
  \/ AttemptResponse
  \/ AttemptOpenFails
  \/ StreamComplete
  \/ StreamBroken
  \/ StreamWriteFails
  \/ Collect
  \/ Summary
  \/ WriteLog
  \/ WriteLogRaises
  \/ Finish
  \/ Rerun

Spec == Init /\ [][Next]_vars


\* ------------------------------------------------------------------ the functions on their own

\* The string s written n times.
Repeat(s, n) == [ k \in 1 .. (n * Len(s)) |-> s[((k - 1) % Len(s)) + 1] ]

\* The characters of the short labels: an upper-case and a lower-case letter,
\* a blank, a character of line 38's class, a dot, a character that only line
\* 40 removes, and the letter U+0130.
LabelChars == { "A", "b", " ", "*", ".", "&", CapitalIDot }

\* The most characters of a short label.
MaxLabelLen == 2

\* Labels longer than the slice of line 41 keeps.
LongLabels ==
  { Repeat(<< "A" >>, MaxNameLen + 1),
    Repeat(<< "A", " ", "\t" >>, MaxNameLen \div 2),
    Repeat(<< "-", "B", "/" >>, MaxNameLen) }

\* The labels sanitize_filename is applied to.
Labels == SeqsUpTo(LabelChars, MaxLabelLen) \cup LongLabels

\* The URLs get_extension_from_url is applied to: a host, a path that is a
\* stem and a suffix, and a query or a fragment.
UrlStems ==
  { << "d","a","t","a" >>,
    << "a","p","i" >> }

UrlSuffixes ==
  { <<  >>,
    ExtCsv,
    ExtJson,
    ExtZip,
    ExtXlsx,
    ExtXml,
    << ".","C","S","V" >>,
    << "%","2","E","c","s","v" >>,
    << ".","c","s","v",";","v" >> }

UrlTails ==
  { <<  >>,
    << "?","f","=","a",".","z","i","p" >>,
    << "#","x",".","x","m","l" >> }

Urls ==
  { HttpHost \o << "/" >> \o stem \o suffix \o tail :
      stem \in UrlStems, suffix \in UrlSuffixes, tail \in UrlTails }

\* The values of the file_type column get_extension_from_url is applied to.
DeclaredTypes ==
  { << "C","S","V" >>,
    << "A","P","I" >>,
    << "J","s","o","n" >>,
    << "z","i","p"," ","f","i","l","e" >>,
    << "J","S","O","N","/","C","S","V" >>,
    << "x","l","s","x" >>,
    <<  >> }

\* The Content-Type headers get_extension_from_response is applied to; None is
\* a response without the header.
ContentTypes ==
  { None,
    << "t","e","x","t","/","c","s","v" >>,
    << "A","p","p","l","i","c","a","t","i","o","n","/","J","S","O","N" >>,
    << "a","p","p","l","i","c","a","t","i","o","n","/","z","i","p" >>,
    << "a","p","p","l","i","c","a","t","i","o","n","/","v","n","d",".","m","s","-","e","x","c","e","l" >>,
    << "t","e","x","t","/","x","m","l" >>,
    << "t","e","x","t","/","h","t","m","l" >> }

\* The Content-Disposition headers get_extension_from_response is applied to.
ContentDisps ==
  { None,
    << "a","t","t","a","c","h","m","e","n","t" >>,
    << "a","t","t","a","c","h","m","e","n","t",";"," ","f","i","l","e","n","a","m","e","=","\"","a",".","C","S","V","\"" >>,
    << "a","t","t","a","c","h","m","e","n","t",";"," ","f","i","l","e","n","a","m","e","=","a",".","z","i","p" >>,
    << "a","t","t","a","c","h","m","e","n","t",";"," ","f","i","l","e","n","a","m","e","=","a",".","z","i","p",";"," ","s","i","z","e","=","1" >>,
    << "a","t","t","a","c","h","m","e","n","t",";"," ","f","i","l","e","n","a","m","e","=","\"","n","o","e","x","t","\"" >> }

\* The pre-request guesses get_extension_from_response is applied to.
DefaultExts == { ExtJson, ExtCsv }

\* No run is under way and no function has been applied.
InitPure ==
  /\ csv_exists = TRUE
  /\ header = Fields
  /\ hospitals = << >>
  /\ Fresh
  /\ called = NoCall
  /\ returned = None

\* Lines 35-41: sanitize_filename is applied to a label.
CallSanitize ==
  /\ called = NoCall
  /\ \E name \in Labels :
       /\ called' = [ fn |-> "sanitize_filename", args |-> << name >> ]
       /\ returned' = sanitize_filename(name)
  /\ UNCHANGED << inputs, pc, mainvars, fsvars, locals, history >>

\* Lines 44-73: get_extension_from_url is applied to a URL and a declared type.
CallExtensionFromUrl ==
  /\ called = NoCall
  /\ \E url \in Urls, file_type \in DeclaredTypes :
       /\ called' = [ fn |-> "get_extension_from_url", args |-> << url, file_type >> ]
       /\ returned' = get_extension_from_url(url, file_type)
  /\ UNCHANGED << inputs, pc, mainvars, fsvars, locals, history >>

\* Lines 76-100: get_extension_from_response is applied to the headers of a
\* response and a pre-request guess.
CallExtensionFromResponse ==
  /\ called = NoCall
  /\ \E ctype \in ContentTypes, cdisp \in ContentDisps, default_ext \in DefaultExts :
       /\ called' = [ fn |-> "get_extension_from_response",
                      args |-> << ctype, cdisp, default_ext >> ]
       /\ returned' = get_extension_from_response([ ctype |-> ctype, cdisp |-> cdisp ],
                                                  default_ext)
  /\ UNCHANGED << inputs, pc, mainvars, fsvars, locals, history >>

NextPure ==
  \/ CallSanitize
  \/ CallExtensionFromUrl
  \/ CallExtensionFromResponse

SpecPure == InitPure /\ [][NextPure]_vars

\* ------------------------------------------------------------------ claims

\* download_file is about to return result (line 159 or line 180); the
\* history variables tell what the call did.
Returning == pc = "return"

AllTimeouts == outcomes # << >> /\ \A k \in DOMAIN outcomes : outcomes[k].kind = "timeout"

\* C1: a call of download_file in which every attempt ends in a timeout makes
\* exactly 3 requests and exactly 2 backoff waits, one after the first attempt
\* and one after the second and none after the third, and returns a result
\* with success = False.
C1_ThreeTimeouts ==
  (Returning /\ AllTimeouts) =>
    /\ requests = 3
    /\ Len(outcomes) = 3
    /\ Len(waits) = 2
    /\ waits[1][1] = 0
    /\ waits[2][1] = 1
    /\ ~ result.success

C1_Witness ==
  /\ Returning
  /\ AllTimeouts
  /\ Len(outcomes) = RETRY_ATTEMPTS
  /\ result.error = TimeoutError(2)

\* C2: an attempt that ends in an HTTP error status is the last of its call,
\* on whichever attempt it happens: no request and no backoff wait follows it,
\* and the result is failed with an error that names the status code.
C2_HttpErrorIsTerminal ==
  \A k \in DOMAIN outcomes :
    outcomes[k].kind = "http_error" =>
      /\ k = Len(outcomes)
      /\ requests = k
      /\ Returning
      /\ \A w \in DOMAIN waits : waits[w][1] < k - 1
      /\ Len(waits) = k - 1
      /\ ~ result.success
      /\ result.error = << "HTTP", outcomes[k].status >>
      /\ outcomes[k].status \in ErrorStatuses

C2_Witness ==
  /\ Returning
  /\ Len(outcomes) = 2
  /\ outcomes[1].kind = "timeout"
  /\ outcomes[2].kind = "http_error"
  /\ outcomes[2].status = 500

\* The run has gone through every row of the manifest.
LoopDone == pc \in { "summary", "log", "listing" } \/ (pc = "done" /\ csv_exists)

\* C3: main produces exactly one result for each row of the manifest, results
\* lists them in the manifest's order, and the log file that is written has one
\* data row for each row of the manifest, in the same order.
C3_OneResultPerRow ==
  /\ Len(results) <= Len(hospitals)
  /\ \A k \in DOMAIN results :
       /\ results[k].hospital = hospitals[k].hospital_name
       /\ results[k].url = hospitals[k].mrf_download_url
  /\ LoopDone => Len(results) = Len(hospitals)
  /\ log.written =>
       /\ Len(log.rows) = Len(hospitals)
       /\ \A k \in DOMAIN log.rows :
            /\ log.rows[k][1] = CsvField(hospitals[k].hospital_name)
            /\ log.rows[k][2] = CsvField(hospitals[k].mrf_download_url)
            /\ log.rows[k] = LogRow(results[k])

C3_Witness ==
  /\ pc = "done"
  /\ log.written
  /\ Len(hospitals) = 2
  /\ hospitals[1] # hospitals[2]
  /\ results[1].success
  /\ ~ results[2].success

\* A step from within the retry loop stays in download_file or returns from it.
AttemptStaysInCall ==
  (pc \in { "try", "stream" }) => (pc' \in { "try", "stream", "return" })

\* A step that takes a failed result appends it, raises nothing and, when rows
\* are left, goes on to the next row.
FailedResultIsCollected ==
  (pc = "return" /\ ~ result.success) =>
    /\ raised' = raised
    /\ results' = Append(results, result)
    /\ (i < Len(hospitals)) => (pc' = "row" /\ i' = i + 1)

\* C4: a failure of a row (timeout, connection error, HTTP error status or any
\* other exception of the transfer or the write) never ends the run: an attempt
\* leaves download_file only by its return, no exception leaves main from
\* within an attempt, and after a failed result main appends it and goes on to
\* the next row.
C4_RowFailureNeverAborts ==
  /\ [](pc = "raised" => (requests = 0 /\ outcomes = << >>))
  /\ [][AttemptStaysInCall]_vars
  /\ [][FailedResultIsCollected]_vars

C4_Witness ==
  /\ pc = "try"
  /\ i = 2
  /\ ~ results[1].success
  /\ results[1].error = UnexpectedError("write")

\* C5: when the manifest file exists, main returns 0 exactly when every row's
\* result has success = True and 1 when a row failed, and it returns only after
\* the summary is printed and the log file is written.
C5_ExitStatus ==
  (exit_code # -1 /\ csv_exists) =>
    /\ pc = "done"
    /\ Len(results) = Len(hospitals)
    /\ (exit_code = 0) <=> (\A k \in DOMAIN results : results[k].success)
    /\ (\E k \in DOMAIN results : ~ results[k].success) => exit_code = 1
    /\ summary.printed
    /\ log.written

C5_Witness ==
  /\ pc = "done"
  /\ exit_code = 1
  /\ Len(results) = 2
  /\ results[1].success
  /\ ~ results[2].success
  /\ summary.failed = 1

\* C6: a call of download_file leaves every file that was there when it began
\* in place with the content it had, in the first run and in later runs with
\* the same manifest: the call opens for writing only a path that did not exist
\* when it looked.
C6_ExistingFilesKept ==
  /\ \A p \in DOMAIN files_before : p \in DOMAIN files /\ files[p] = files_before[p]
  /\ \A k \in DOMAIN opened : ~ opened[k].existed

C6_Witness ==
  /\ Returning
  /\ result.success
  /\ runs = 2
  /\ << region_dir, base_name \o ExtCsv >> \in DOMAIN files_before
  /\ result.filename = << region_dir, base_name \o << "_", "1" >> \o ExtCsv >>

\* The n-th name of the sequence base+ext, base_1+ext, base_2+ext, ...
Candidate(base, ext, n) ==
  IF n = 0 THEN base \o ext ELSE base \o << "_" >> \o DecStr(n) \o ext

\* C7: on a good response download_file writes to the first name of the
\* sequence base+ext, base_1+ext, base_2+ext, ... that does not exist in the
\* region directory; so two rows with the same sanitized name, the same region
\* directory and the same resolved extension, fetched without a failure into a
\* fresh output directory, give name.ext and name_1.ext.
C7_FirstFreeName ==
  /\ \A k \in DOMAIN opened :
       \E m \in 0 .. Cardinality(opened[k].seen) :
         /\ opened[k].path = << region_dir, Candidate(base_name, opened[k].ext, m) >>
         /\ opened[k].path[2] \notin opened[k].seen
         /\ \A n \in 0 .. (m - 1) : Candidate(base_name, opened[k].ext, n) \in opened[k].seen
  /\ ( /\ runs = 1
       /\ faults = 0
       /\ Len(results) = 2
       /\ results[1].success
       /\ results[2].success
       /\ sanitize_filename(hospitals[1].hospital_name)
            = sanitize_filename(hospitals[2].hospital_name)
       /\ RegionDir(hospitals[1].region) = RegionDir(hospitals[2].region)
       /\ \E ext \in { ExtCsv, ExtJson } :
            EndsWith(results[1].filename[2], ext) /\ EndsWith(results[2].filename[2], ext) )
     =>
       \E ext \in { ExtCsv, ExtJson } :
         LET dir == RegionDir(hospitals[1].region)
             base == sanitize_filename(hospitals[1].hospital_name)
         IN  /\ results[1].filename = << dir, base \o ext >>
             /\ results[2].filename = << dir, base \o << "_", "1" >> \o ext >>

C7_Witness ==
  /\ runs = 1
  /\ faults = 0
  /\ Len(results) = 2
  /\ hospitals[1].hospital_name # hospitals[2].hospital_name
  /\ hospitals[1].region # hospitals[2].region
  /\ results[1].filename = << << "r" >>, << "a", "_", "b" >> \o ExtCsv >>
  /\ results[2].filename = << << "r" >>, << "a", "_", "b", "_", "1" >> \o ExtCsv >>

\* C8: every result that download_file returns with success = True has no
\* error (None), also when the success came on a second or third attempt after
\* timeouts or connection errors.
C8_SuccessHasNoError ==
  /\ (Returning /\ result.success) => result.error = None
  /\ \A k \in DOMAIN results : results[k].success => results[k].error = None

\* C9: every result that download_file returns with success = False has no
\* filename (None), size 0 and an error, so that every failed row is in the
\* log with a reason.
C9_FailedResultShape ==
  /\ (Returning /\ ~ result.success) =>
       /\ result.filename = None
       /\ result.size = 0
       /\ result.error # None
  /\ \A k \in DOMAIN results :
       ~ results[k].success =>
         /\ results[k].filename = None
         /\ results[k].size = 0
         /\ results[k].error # None
  /\ \A k \in DOMAIN log.rows :
       ~ log.rows[k][3] =>
         /\ log.rows[k][4] = << >>
         /\ log.rows[k][5] = 0
         /\ log.rows[k][6] # << >>

C9_Witness ==
  /\ Returning
  /\ ~ result.success
  /\ opened # << >>
  /\ files[opened[1].path].size > 0
  /\ result.error = UnexpectedError("open")

\* Row k has no value for a required field: the header has no such column, or
\* the row is short and the field is None.
LacksField(k) ==
  header # Fields \/ \E f \in Fields : hospitals[k][f] = None

\* The run stops at row k: the row gets no result, no later row is reached,
\* and at row k main is either about to call download_file or left by an
\* exception.
StopsAt(k) ==
  /\ Len(results) < k
  /\ i <= k
  /\ i = k => pc \in { "row", "raised" }

LacksFatally(k) ==
  \/ header # Fields
  \/ hospitals[k].region = None
  \/ hospitals[k].hospital_name = None
  \/ hospitals[k].file_type = None /\ ~ PathHasKnownSuffix(hospitals[k].mrf_download_url)

C11_NoManifestReturnsAtOnce ==
  ~ csv_exists =>
    /\ pc \in { "start", "done" }
    /\ pc = "done" => exit_code = 1
    /\ ~ out_dir
    /\ dirs = { }
    /\ files = NoFiles
    /\ calls = 0
    /\ requests = 0
    /\ results = << >>
    /\ ~ summary.printed
    /\ ~ log.written
    /\ raised = None

C11_Witness ==
  /\ ~ csv_exists
  /\ pc = "done"
  /\ exit_code = 1
  /\ runs = 2

\* The suffixes of a URL path that settle the extension.
RecognizedSuffixes == { ExtCsv, ExtJson, ExtZip, ExtXlsx, ExtXml }

\* The words looked for in the declared type, in their order of precedence,
\* each with the extension it stands for.
TypeWords ==
  << << << "c","s","v" >>, ExtCsv >>,
     << << "j","s","o","n" >>, ExtJson >>,
     << << "z","i","p" >>, ExtZip >>,
     << << "a","p","i" >>, ExtJson >> >>

\* The indices of the words of TypeWords that the declared type contains,
\* whatever the case of its letters.
DeclaredMatches(type) == { k \in DOMAIN TypeWords : Contains(Lower(type), TypeWords[k][1]) }

\* C12: get_extension_from_url resolves by strict precedence: a recognized
\* suffix of the URL's path (.csv, .json, .zip, .xlsx, .xml) is the result
\* whatever the declared type; without one, the first of csv, json, zip, api
\* that the declared type contains, in any case of letters, decides (api
\* standing for .json); without that, the result is .json.  A URL ending in
\* data.csv with the declared type API gives .csv, and a URL without a
\* recognized suffix with the declared type API gives .json.
C12_UrlExtensionPrecedence ==
  called.fn = "get_extension_from_url" =>
    LET url == called.args[1]
        type == called.args[2]
        path == unquote(UrlPath(url))
        suffixes == { e \in RecognizedSuffixes : EndsWith(path, e) }
        words == DeclaredMatches(type)
        first == CHOOSE k \in words : \A j \in words : k <= j
    IN  /\ suffixes # { } => returned \in suffixes
        /\ (suffixes = { } /\ words # { }) => returned = TypeWords[first][2]
        /\ (suffixes = { } /\ words = { }) => returned = ExtJson
        /\ (EndsWith(path, << "d","a","t","a" >> \o ExtCsv) /\ type = TypeApi)
             => returned = ExtCsv
        /\ (suffixes = { } /\ type = TypeApi) => returned = ExtJson

C12_Witness ==
  /\ called.fn = "get_extension_from_url"
  /\ called.args = << HttpHost \o << "/","d","a","t","a" >> \o ExtCsv, TypeApi >>
  /\ returned = ExtCsv

\* The words looked for in the Content-Type header, each with the extension
\* it stands for.
ContentTypeWords ==
  << << << "c","s","v" >>, ExtCsv >>,
     << << "j","s","o","n" >>, ExtJson >>,
     << << "z","i","p" >>, ExtZip >>,
     << << "e","x","c","e","l" >>, ExtXlsx >>,
     << << "s","p","r","e","a","d","s","h","e","e","t" >>, ExtXlsx >>,
     << << "x","m","l" >>, ExtXml >> >>

\* The value of the filename parameter of a Content-Disposition header as the
\* header's syntax has it: what stands between the quotes when it is quoted,
\* otherwise what stands before the next ";".  None without the parameter.
DispositionFilename(cdisp) ==
  LET key == FilenameWord \o << "=" >>
      starts == { p \in DOMAIN cdisp : Slice(cdisp, p, p + Len(key) - 1) = key }
      p0 == CHOOSE p \in starts : \A q \in starts : p <= q
      v == DropFirst(cdisp, p0 + Len(key) - 1)
  IN  IF cdisp = None \/ starts = { } THEN None
      ELSE IF v # << >> /\ Head(v) = "\"" THEN Slice(Tail(v), 1, FirstOf(Tail(v), { "\"" }) - 1)
      ELSE Slice(v, 1, FirstOf(v, { ";" }) - 1)

\* C13: get_extension_from_response resolves by strict precedence: a word of
\* the Content-Type (csv, json, zip, excel or spreadsheet for .xlsx, xml)
\* settles the extension whatever else the response says, so text/csv
\* overrides a pre-request guess of .json; without such a word, a file name in
\* the Content-Disposition that has a dot gives its suffix in lower case;
\* otherwise the pre-request guess comes back unchanged.
C13_ResponsePrecedence ==
  called.fn = "get_extension_from_response" =>
    LET content_type == Lower(HeaderOr(called.args[1], << >>))
        default_ext == called.args[3]
        byType == { ContentTypeWords[k][2] :
                      k \in { j \in DOMAIN ContentTypeWords :
                                Contains(content_type, ContentTypeWords[j][1]) } }
        name == DispositionFilename(called.args[2])
        dotted == name # None /\ "." \in Range(name)
    IN  /\ byType # { } => returned \in byType
        /\ (byType = { } /\ dotted)
             => returned = << "." >> \o Lower(DropFirst(name, LastOf(name, { "." })))
        /\ (byType = { } /\ ~ dotted) => returned = default_ext
        /\ (content_type = << "t","e","x","t","/","c","s","v" >> /\ default_ext = ExtJson)
             => returned = ExtCsv

\* C14: for every label x, sanitize_filename(sanitize_filename(x)) is
\* sanitize_filename(x), the output has at most 100 characters, and every
\* character of the output is a lower-case letter, a digit, a dash, an
\* underscore or a dot.
C14_SanitizeIdempotentAndSafe ==
  called.fn = "sanitize_filename" =>
    /\ sanitize_filename(returned) = returned
    /\ Len(returned) <= 100
    /\ \A c \in Range(returned) :
         c \in Range(LowerLetters) \cup Range(Digits) \cup { "-", "_", "." }

\* Attempt number k of the call at hand (counted from 1) ended in a timeout or
\* another request exception.
TransportFailure(k) == outcomes[k].kind \in { "timeout", "request_exception" }

\* C15: in download_file a backoff wait is made only after an attempt that
\* ended in a timeout or another request exception and that is not the last
\* one; after the attempt numbered a from 0 it lasts 2^a seconds, 1 s after the
\* first attempt and 2 s after the second, and another attempt follows it.
\* Every such failure of the first or second attempt is followed by its wait.
\* No wait follows the third attempt, a success, an HTTP error or an
\* unclassified error.
C15_BackoffWaits ==
  /\ \A w \in DOMAIN waits :
       LET a == waits[w][1]
       IN  /\ a \in { 0, 1 }
           /\ waits[w][2] = (IF a = 0 THEN 1 ELSE 2)
           /\ a + 1 \in DOMAIN outcomes
           /\ TransportFailure(a + 1)
           /\ Returning => a + 2 \in DOMAIN outcomes
           /\ \A v \in DOMAIN waits : v < w => waits[v][1] < a
  /\ \A k \in DOMAIN outcomes :
       LET waited == \E w \in DOMAIN waits : waits[w][1] = k - 1
       IN  /\ (TransportFailure(k) /\ k < 3) => waited
           /\ (~ TransportFailure(k) \/ k = 3) => ~ waited
  /\ Len(outcomes) <= 3

C15_Witness ==
  /\ Returning
  /\ result.success
  /\ Len(outcomes) = 3
  /\ outcomes[1].kind = "timeout"
  /\ outcomes[2].kind = "request_exception"
  /\ waits = << << 0, 1 >>, << 1, 2 >> >>

\* C16: an attempt that ends in an exception that is neither a timeout, an
\* HTTP error nor another request exception (an OSError of open or of write)
\* is the last of its call: download_file returns at once a failed result whose
\* error begins with "Unexpected error", and no request and no backoff wait
\* follows the attempt.
C16_UnexpectedErrorIsTerminal ==
  \A k \in DOMAIN outcomes :
    outcomes[k].kind = "unexpected" =>
      /\ k = Len(outcomes)
      /\ Returning
      /\ requests = k
      /\ ~ result.success
      /\ result.error \in { UnexpectedError("open"), UnexpectedError("write") }
      /\ result.error[1] = "Unexpected error"
      /\ \A w \in DOMAIN waits : waits[w][1] < k - 1

C16_Witness ==
  /\ Returning
  /\ Len(outcomes) = 2
  /\ outcomes[1].kind = "timeout"
  /\ outcomes[2].kind = "unexpected"
  /\ result.error = UnexpectedError("write")
  /\ waits = << << 0, 1 >> >>

\* C17: the response and the file handle that download_file opened for a row
\* are both released before it returns, whatever the outcome (success, HTTP
\* error, retries exhausted, unclassified error), and so no response of a row
\* is still unreleased when main goes on to the next row or to the summary.
C17_HandlesReleased ==
  /\ Returning => (~ Unreleased(response) /\ ~ HandleOpen)
  /\ pc \notin { "try", "stream", "return" } =>
       (~ Unreleased(response) /\ ~ HandleOpen /\ unclosed = 0)

\* C18: for a manifest of n rows main makes max(0, n - 1) inter-row delays:
\* one after the result of every row but the last, so that row k is fetched
\* only after the k - 1 delays that follow the rows before it, and a run that
\* has gone through all rows has made n - 1 delays, or none for an empty
\* manifest.
C18_InterRowDelays ==
  /\ pc \in { "row", "try", "stream", "return" } =>
       (delays = i - 1 /\ delays = Len(results))
  /\ LoopDone =>
       delays = (IF Len(hospitals) = 0 THEN 0 ELSE Len(hospitals) - 1)
  /\ delays <= Len(results)

C18_Witness ==
  /\ pc = "done"
  /\ csv_exists
  /\ Len(hospitals) = 2
  /\ Len(results) = 2
  /\ delays = 1

\* C19: in download_file, when attempt k (1 <= k <= 3) is the first to
\* succeed, the attempts before it having ended in timeouts or other request
\* exceptions, exactly k requests and k - 1 backoff waits are made and the
\* result is a success; no request is made after a success; and in every
\* execution a call makes at least 1 and at most 3 requests.
C19_RequestsAndWaits ==
  /\ \A k \in DOMAIN outcomes :
       outcomes[k].kind = "ok" =>
         /\ k = Len(outcomes)
         /\ k \in 1 .. 3
         /\ \A j \in 1 .. (k - 1) : TransportFailure(j)
         /\ requests = k
         /\ Len(waits) = k - 1
         /\ Returning
         /\ result.success
  /\ (Returning /\ result.success) => outcomes[Len(outcomes)].kind = "ok"
  /\ requests <= 3
  /\ Returning => requests >= 1
  /\ pc \in { "try", "stream", "return" } =>
       requests = Len(outcomes) + (IF pc = "stream" THEN 1 ELSE 0)

C19_Witness ==
  /\ Returning
  /\ result.success
  /\ requests = 3
  /\ outcomes[1].kind = "request_exception"
  /\ outcomes[1].status = 200
  /\ outcomes[2].kind = "timeout"
  /\ outcomes[3].kind = "ok"
  /\ Len(waits) = 2

\* The files that the call at hand has created so far.
NewFiles == DOMAIN files \ DOMAIN files_before

\* C20: one call of download_file creates at most one new file in the region
\* directory, and only when its result is a success, the file then being the
\* one the result names; a call that returns a failed result leaves no new
\* file behind, also when a transfer broke after the destination file was
\* opened and the attempt was repeated.
C20_AtMostOneNewFile ==
  Returning =>
    /\ Cardinality(NewFiles) <= 1
    /\ result.success => NewFiles = { result.filename }
    /\ ~ result.success => NewFiles = { }

====
